---- MODULE Spec2Model ----
(***************************************************************************)
(* Model of src/pdf_to_word/main.py: the Streamlit script that orders the  *)
(* uploaded files by the number in their name, transcribes each one with a *)
(* remote model, collects the results in extracted_data and renders them   *)
(* into a .docx document.                                                  *)
(*                                                                         *)
(* A text (a Python str) is a sequence of one-character strings, so that   *)
(* split, strip, join, lower and the regular expression are computed on    *)
(* the characters as the code computes them.                               *)
(***************************************************************************)
EXTENDS Integers, Sequences, FiniteSets, TLC

VARIABLES
    API_KEY,        \* TRUE iff os.getenv("GOOGLE_API_KEY") is non-empty (line 19)
    uploaded_files, \* the names of the uploaded files, in upload order (line 35)
    sorted_files,   \* line 50
    pc,             \* position of the script run
    model,          \* "none" | "ok" | "failed": outcome of genai.GenerativeModel (line 65)
    idx,            \* number of files of sorted_files the loop of line 73 has finished
    extracted_data, \* line 42: sequence of [filename, text]
    origin,         \* history: origin[k] is the loop index that appended extracted_data[k]
    response,       \* script variable of lines 104, 142: the text of the last response
    full_text,      \* script variable of lines 77-153
    final_text,     \* script variable of line 163
    tmp_files,      \* temporary files existing on disk, named by the loop index that made them
    widget_keys,    \* keys of the st.text_area widgets registered in this run (line 172)
    read_log,       \* loop indexes whose file.read() was called
    remote_log,     \* remote operations attempted: <<loop index, "upload" | "generate">>
    fault,          \* history: the stage at which the last processed file raised, or "none"
    fault_msg,      \* history: str(e) of that exception
    doc             \* the paragraphs of the generated document, <<>> before it is built

vars == <<API_KEY, uploaded_files, sorted_files, pc, model, idx, extracted_data,
          origin, response, full_text, final_text, tmp_files, widget_keys, read_log,
          remote_log, fault, fault_msg, doc>>

----------------------------------------------------------------------------
(* Bounds of the model *)

MaxFiles == 2
MaxRespLen == 1
MaxUploads == 3
MaxTextLen == 3

----------------------------------------------------------------------------
(* Sequences and characters *)

SeqsUpTo(S, n) == UNION {[1..k -> S] : k \in 0..n}

Last(s) == s[Len(s)]

\* the whitespace str.strip() removes, as far as the texts of the model hold it
Whitespace == {" ", "\t", "\n", "\r"}

Digits == <<"0", "1", "2", "3", "4", "5", "6", "7", "8", "9">>

IsDigit(c) == \E k \in 1..10 : Digits[k] = c

DigitVal(c) == (CHOOSE k \in 1..10 : Digits[k] = c) - 1

UpperAlpha ==
    <<"A", "B", "C", "D", "E", "F", "G", "H", "I", "J", "K", "L", "M",
      "N", "O", "P", "Q", "R", "S", "T", "U", "V", "W", "X", "Y", "Z">>

LowerAlpha ==
    <<"a", "b", "c", "d", "e", "f", "g", "h", "i", "j", "k", "l", "m",
      "n", "o", "p", "q", "r", "s", "t", "u", "v", "w", "x", "y", "z">>

UpperToLower ==
    [c \in {UpperAlpha[k] : k \in 1..26} |->
        LowerAlpha[CHOOSE k \in 1..26 : UpperAlpha[k] = c]]

LowerChar(c) == IF c \in DOMAIN UpperToLower THEN UpperToLower[c] ELSE c

\* str.lower()
Lower(s) == [k \in 1..Len(s) |-> LowerChar(s[k])]

\* str.strip(): drop the leading and the trailing whitespace
RECURSIVE LStrip(_)
LStrip(s) ==
    IF s # <<>> /\ Head(s) \in Whitespace THEN LStrip(Tail(s)) ELSE s

RECURSIVE RStrip(_)
RStrip(s) ==
    IF s # <<>> /\ Last(s) \in Whitespace
    THEN RStrip(SubSeq(s, 1, Len(s) - 1))
    ELSE s

Strip(s) == RStrip(LStrip(s))

\* str.split(sep) for a one-character separator: the pieces between the
\* occurrences of sep, always at least one piece
Split(s, sep) ==
    LET at == {k \in 1..Len(s) : s[k] = sep}
        \* position of the j-th separator; 0 and Len(s) + 1 close the ends
        cut(j) == IF j = 0 THEN 0
                  ELSE IF j > Cardinality(at) THEN Len(s) + 1
                  ELSE CHOOSE k \in at : Cardinality({m \in at : m < k}) = j - 1
    IN  [j \in 1..(Cardinality(at) + 1) |-> SubSeq(s, cut(j - 1) + 1, cut(j) - 1)]

\* ' '.join(pieces): the pieces joined by a blank, whatever sep is
JoinSpace(pieces, sep) ==
    LET RECURSIVE J(_)
        J(k) == IF k > Len(pieces) THEN <<>>
                ELSE IF k = 1 THEN pieces[k] \o J(k + 1)
                ELSE <<" ">> \o pieces[k] \o J(k + 1)
    IN  J(1)

\* sep.join(pieces)
Join(pieces, sep) ==
    LET RECURSIVE J(_)
        J(k) == IF k > Len(pieces) THEN <<>>
                ELSE IF k = 1 THEN pieces[k] \o J(k + 1)
                ELSE <<sep>> \o pieces[k] \o J(k + 1)
    IN  J(1)

----------------------------------------------------------------------------
(* Literals of the script *)

UnsupportedText ==
    <<"[", "U", "n", "s", "u", "p", "p", "o", "r", "t", "e", "d", " ", "f", "i", "l", "e", " ", "t", "y", "p", "e", "]">>

NoTextDetected ==
    <<"[", "N", "o", " ", "t", "e", "x", "t", " ", "d", "e", "t", "e", "c", "t", "e", "d", " ", "o", "r", " ", "l", "o", "w", " ", "c", "o", "n", "f", "i", "d", "e", "n", "c", "e", "]">>

GeminiPrefix ==
    <<"[", "G", "e", "m", "i", "n", "i", " ", "e", "r", "r", "o", "r", ":", " ">>

UnexpectedPrefix ==
    <<"[", "U", "n", "e", "x", "p", "e", "c", "t", "e", "d", " ", "e", "r", "r", "o", "r", ":", " ">>

SourcePrefix ==
    <<"S", "o", "u", "r", "c", "e", ":", " ">>

TitleText ==
    <<"E", "x", "a", "c", "t", " ", "T", "e", "x", "t", " ", "E", "x", "t", "r", "a", "c", "t", "i", "o", "n", " ", "f", "r", "o", "m", " ", "I", "m", "a", "g", "e", "s", " ", "&", " ", "P", "D", "F", "s">>

IntroText ==
    <<"F", "i", "l", "e", "s", " ", "p", "r", "o", "c", "e", "s", "s", "e", "d", " ", "i", "n", " ", "o", "r", "d", "e", "r", " ", "s", "h", "o", "w", "n", " ", "a", "b", "o", "v", "e", ".">>

SepWidth == 60

\* "_" * 60
SeparatorText == [k \in 1..SepWidth |-> "_"]

\* f"[Gemini error: {str(e)}]"
GeminiError(msg) == GeminiPrefix \o msg \o <<"]">>

\* f"[Unexpected error: {str(e)}]"
UnexpectedError(msg) == UnexpectedPrefix \o msg \o <<"]">>

----------------------------------------------------------------------------
(* Filename Sequencer: lines 46-50 *)

\* int(str) for a run of decimal digits
RECURSIVE IntOf(_)
IntOf(ds) ==
    IF ds = <<>> THEN 0
    ELSE 10 * IntOf(SubSeq(ds, 1, Len(ds) - 1)) + DigitVal(Last(ds))

\* the match of re.search(r'(\d+)', s): the leftmost digit, extended greedily
DigitRun(s) ==
    LET p == CHOOSE k \in 1..Len(s) :
                 IsDigit(s[k]) /\ \A j \in 1..(k - 1) : ~IsDigit(s[j])
        q == CHOOSE k \in p..Len(s) :
                 /\ \A j \in p..k : IsDigit(s[j])
                 /\ (k = Len(s) \/ ~IsDigit(s[k + 1]))
    IN  SubSeq(s, p, q)

\* the same with the pattern r'(\d)': one digit only
extract_number_one_digit(name) ==
    IF \E k \in 1..Len(name) : IsDigit(name[k])
    THEN [inf |-> FALSE, n |-> IntOf(SubSeq(DigitRun(name), 1, 1))]
    ELSE [inf |-> TRUE, n |-> 0]

\* extract_number: an int, or float('inf') when the name holds no digit
extract_number(name) ==
    IF \E k \in 1..Len(name) : IsDigit(name[k])
    THEN [inf |-> FALSE, n |-> IntOf(DigitRun(name))]
    ELSE [inf |-> TRUE, n |-> 0]

\* Python's a < b between ints and float('inf')
KeyLess(a, b) == ~a.inf /\ (b.inf \/ a.n < b.n)

\* x put behind every element whose key is not greater than its own
InsertByKey(s, x) ==
    LET later == {k \in 1..Len(s) : KeyLess(extract_number(x), extract_number(s[k]))}
        p == IF later = {} THEN Len(s) + 1
             ELSE CHOOSE k \in later : \A j \in later : k <= j
    IN  SubSeq(s, 1, p - 1) \o <<x>> \o SubSeq(s, p, Len(s))

\* sorted(files, key=extract_number): Python's sort is stable
RECURSIVE Sorted(_)
Sorted(files) ==
    IF files = <<>> THEN <<>>
    ELSE InsertByKey(Sorted(SubSeq(files, 1, Len(files) - 1)), Last(files))

----------------------------------------------------------------------------
(* Batch Orchestrator, pure parts: lines 76-79, 105, 143, 156-163 *)

ImageExts == {<<"j", "p", "g">>, <<"j", "p", "e", "g">>, <<"p", "n", "g">>}

PdfExt == <<"p", "d", "f">>

\* file.name.lower().split('.')[-1]
FileExt(name) == Last(Split(Lower(name), "."))

\* the if / elif / else of lines 79, 107, 152 with no else branch of its own:
\* whatever is not an image is handled as a PDF
FileKindNoElse(name) ==
    IF FileExt(name) \in ImageExts THEN "image" ELSE "pdf"

\* the branch of lines 79, 107, 152 the file takes
FileKind(name) ==
    IF FileExt(name) \in ImageExts THEN "image"
    ELSE IF FileExt(name) = PdfExt THEN "pdf"
    ELSE "unsupported"

\* response.text.strip() if response.text else "[No text detected or low confidence]"
\* (None and '' are the falsy values of response.text)
ResponseText(resp) ==
    IF ~resp.none /\ resp.text # <<>> THEN Strip(resp.text) ELSE NoTextDetected

\* lines 156-163 with ' '.join in place of '\n'.join
NormalizeJoinSpace(text) ==
    LET lines == Split(text, "\n")
        cleaned_lines == [k \in 1..Len(lines) |-> Strip(lines[k])]
    IN  JoinSpace(cleaned_lines, "\n")

\* lines 156-163: split on '\n', strip every line, keep the blank ones, rejoin
Normalize(text) ==
    LET lines == Split(text, "\n")
        cleaned_lines == [k \in 1..Len(lines) |-> Strip(lines[k])]
    IN  Join(cleaned_lines, "\n")

----------------------------------------------------------------------------
(* Document Assembler: lines 184-205 *)

Paragraph(style, text, bold, size) ==
    [style |-> style, text |-> text, bold |-> bold, size |-> size]

\* lines 190-203 for one item, without the separator of line 205
DocBlockNoSeparator(item) ==
    LET lines == Split(item.text, "\n")
    IN  <<Paragraph("Normal", SourcePrefix \o item.filename, TRUE, 12)>>
        \o [k \in 1..Len(lines) |-> Paragraph("Normal", lines[k], FALSE, 11)]

\* lines 190-205 for one item: header, one paragraph per line, separator
DocBlock(item) ==
    LET lines == Split(item.text, "\n")
    IN  <<Paragraph("Normal", SourcePrefix \o item.filename, TRUE, 12)>>
        \o [k \in 1..Len(lines) |-> Paragraph("Normal", lines[k], FALSE, 11)]
        \o <<Paragraph("Normal", SeparatorText, FALSE, 0)>>

RECURSIVE DocBlocks(_)
DocBlocks(data) ==
    IF data = <<>> THEN <<>> ELSE DocBlock(Head(data)) \o DocBlocks(Tail(data))

\* lines 184-205
Document(data) ==
    <<Paragraph("Title", TitleText, FALSE, 0), Paragraph("Normal", IntroText, FALSE, 0)>>
    \o DocBlocks(data)

----------------------------------------------------------------------------
(* Inputs *)

\* names the uploader hands to the pipeline: 2.jpg, 1.pdf, 3.PNG,
\* notes.txt, a.pdf.txt
FileNames ==
    { <<"2", ".", "j", "p", "g">>,
      <<"1", ".", "p", "d", "f">>,
      <<"3", ".", "P", "N", "G">>,
      <<"n", "o", "t", "e", "s", ".", "t", "x", "t">>,
      <<"a", ".", "p", "d", "f", ".", "t", "x", "t">> }

TextChars == {"a", " ", "\n"}

\* response.text of the remote model: None or a str
Responses ==
    {[none |-> TRUE, text |-> <<>>]}
    \cup {[none |-> FALSE, text |-> t] : t \in SeqsUpTo(TextChars, MaxRespLen)}

\* str(e) of an exception: one line, or two lines with the second one indented
Messages == { <<"e">>, <<"e", "\n", " ", "e">> }

\* names for the sequencer alone: 1.jpg, 01.pdf, 10.png, 2.jpg, a.pdf, b.jpg,
\* p1q2.png
SortNames ==
    { <<"1", ".", "j", "p", "g">>,
      <<"0", "1", ".", "p", "d", "f">>,
      <<"1", "0", ".", "p", "n", "g">>,
      <<"2", ".", "j", "p", "g">>,
      <<"a", ".", "p", "d", "f">>,
      <<"b", ".", "j", "p", "g">>,
      <<"p", "1", "q", "2", ".", "p", "n", "g">> }

\* texts for the normalization pass alone
NormTexts == SeqsUpTo({"a", " ", "\t", "\n"}, MaxTextLen)

----------------------------------------------------------------------------
(* The per-file step, lines 73-179, by the stage at which it raises *)

\* the calls of each branch that can raise
StagesOf(kind) ==
    CASE kind = "image" -> {"none", "read", "open", "generate"}
      [] kind = "pdf" -> {"none", "read", "tmp_create", "tmp_write", "upload", "generate"}
      [] OTHER -> {"none"}

\* the PDF branch with generate_content outside the inner try
CaughtInnerUploadOnly(kind, stage) ==
    kind = "pdf" /\ stage = "upload"

\* exceptions the inner try of lines 116-146 catches
CaughtInner(kind, stage) ==
    kind = "pdf" /\ stage \in {"upload", "generate"}

\* exceptions that reach the outer except of line 175 before anything is appended
RaisesOuter(kind, stage) ==
    stage # "none" /\ ~CaughtInner(kind, stage)

\* full_text at line 155
ExtractText(kind, stage, resp, msg) ==
    CASE kind = "unsupported" -> UnsupportedText
      [] CaughtInner(kind, stage) -> GeminiError(msg)
      [] OTHER -> ResponseText(resp)

\* remote operations the step attempts
RemoteOps(kind, stage) ==
    CASE kind = "image" /\ stage \in {"none", "generate"} -> {"generate"}
      [] kind = "pdf" /\ stage = "upload" -> {"upload"}
      [] kind = "pdf" /\ stage \in {"none", "generate"} -> {"upload", "generate"}
      [] OTHER -> {}

\* TRUE iff the temporary file of lines 112-114 is still on disk after the step:
\* it is created with delete=False and unlinked only by the finally of line 147,
\* which a raise in tmp.write never reaches
TmpLeft(kind, stage) == kind = "pdf" /\ stage = "tmp_write"

----------------------------------------------------------------------------
(* The script run *)

\* the script variables before the run (line 42 and the unset ones)
Blank ==
    /\ sorted_files = <<>>
    /\ model = "none"
    /\ idx = 0
    /\ extracted_data = <<>>
    /\ origin = <<>>
    /\ response = [none |-> TRUE, text |-> <<>>]
    /\ full_text = <<>>
    /\ final_text = <<>>
    /\ tmp_files = {}
    /\ widget_keys = {}
    /\ read_log = {}
    /\ remote_log = {}
    /\ fault = "none"
    /\ fault_msg = <<>>
    /\ doc = <<>>

Init ==
    /\ API_KEY \in BOOLEAN
    /\ uploaded_files \in SeqsUpTo(FileNames, MaxFiles)
    /\ pc = "start"
    /\ Blank

\* lines 44-57: nothing is shown for an empty upload
SortFiles ==
    /\ pc = "start"
    /\ sorted_files' = IF uploaded_files = <<>> THEN <<>> ELSE Sorted(uploaded_files)
    /\ pc' = IF uploaded_files = <<>> THEN "idle" ELSE "ready"
    /\ UNCHANGED <<API_KEY, uploaded_files, model, idx, extracted_data, origin,
                   response, full_text, final_text, tmp_files, widget_keys, read_log,
                   remote_log, fault, fault_msg, doc>>

\* lines 59-71 without the st.stop() calls
PressExtractNoStop ==
    /\ pc = "ready"
    /\ \E init_ok \in BOOLEAN :
          /\ model' = IF API_KEY /\ init_ok THEN "ok" ELSE "failed"
          /\ pc' = "loop"
          /\ extracted_data' = <<>>
          /\ origin' = <<>>
    /\ UNCHANGED <<API_KEY, uploaded_files, sorted_files, idx, response, full_text,
                   final_text, tmp_files, widget_keys, read_log, remote_log,
                   fault, fault_msg, doc>>

\* lines 59-71: the button, the credential check, the model initialization
PressExtract ==
    /\ pc = "ready"
    /\ \E init_ok \in BOOLEAN :
          IF ~API_KEY
          THEN /\ pc' = "stopped"
               /\ UNCHANGED <<model, extracted_data, origin>>
          ELSE IF ~init_ok
          THEN /\ model' = "failed"
               /\ pc' = "stopped"
               /\ UNCHANGED <<extracted_data, origin>>
          ELSE /\ model' = "ok"
               /\ pc' = "loop"
               /\ extracted_data' = <<>>
               /\ origin' = <<>>
    /\ UNCHANGED <<API_KEY, uploaded_files, sorted_files, idx, response, full_text,
                   final_text, tmp_files, widget_keys, read_log, remote_log,
                   fault, fault_msg, doc>>

\* lines 73-179 for one file of sorted_files
ProcessFile ==
    /\ pc = "loop"
    /\ idx < Len(sorted_files)
    /\ LET i == idx + 1
           name == sorted_files[i]
       IN  \E kind \in {FileKind(name)} :
           \E stage \in StagesOf(kind) :
           \* an input is drawn only where the step reads it
           \E resp \in (IF kind # "unsupported" /\ stage = "none"
                        THEN Responses ELSE {[none |-> TRUE, text |-> <<>>]}),
              msg \in (IF stage = "none" THEN {<<>>} ELSE Messages),
              dmsg \in (IF name \in widget_keys /\ ~RaisesOuter(kind, stage)
                        THEN Messages ELSE {<<>>}) :
             /\ idx' = i
             /\ read_log' = IF kind = "unsupported" THEN read_log ELSE read_log \cup {i}
             /\ remote_log' = remote_log \cup {<<i, op>> : op \in RemoteOps(kind, stage)}
             /\ tmp_files' = IF TmpLeft(kind, stage) THEN tmp_files \cup {i} ELSE tmp_files
             /\ fault' = stage
             /\ fault_msg' = msg
             /\ response' = IF kind # "unsupported" /\ stage = "none"
                            THEN resp ELSE response
             /\ IF RaisesOuter(kind, stage)
                THEN \* line 175: the result of the except clause alone
                     /\ full_text' = <<>>
                     /\ final_text' = final_text
                     /\ extracted_data' =
                            Append(extracted_data,
                                   [filename |-> name, text |-> UnexpectedError(msg)])
                     /\ origin' = Append(origin, i)
                     /\ widget_keys' = widget_keys
                ELSE \* lines 155-173
                     /\ full_text' = ExtractText(kind, stage, resp, msg)
                     /\ final_text' = Normalize(full_text')
                     /\ IF name \in widget_keys
                        THEN \* st.text_area(key=f"text_{file.name}") of line 172
                             \* raises on a key this run has registered already
                             \* (two uploads of one name), after the append of
                             \* line 166: the except of line 175 appends again
                             /\ extracted_data' =
                                    extracted_data
                                    \o <<[filename |-> name, text |-> final_text'],
                                         [filename |-> name,
                                          text |-> UnexpectedError(dmsg)]>>
                             /\ origin' = origin \o <<i, i>>
                             /\ widget_keys' = widget_keys
                        ELSE /\ extracted_data' =
                                    Append(extracted_data,
                                           [filename |-> name, text |-> final_text'])
                             /\ origin' = Append(origin, i)
                             /\ widget_keys' = widget_keys \cup {name}
    /\ UNCHANGED <<API_KEY, uploaded_files, sorted_files, pc, model, doc>>

\* lines 181-218
GenerateDocx ==
    /\ pc = "loop"
    /\ idx = Len(sorted_files)
    /\ doc' = Document(extracted_data)
    /\ pc' = "done"
    /\ UNCHANGED <<API_KEY, uploaded_files, sorted_files, model, idx, extracted_data,
                   origin, response, full_text, final_text, tmp_files, widget_keys, read_log,
                   remote_log, fault, fault_msg>>

Next == SortFiles \/ PressExtract \/ ProcessFile \/ GenerateDocx

Spec == Init /\ [][Next]_vars

----------------------------------------------------------------------------
(* The sequencer alone, over a wider set of names *)

InitSort ==
    /\ API_KEY = TRUE
    /\ uploaded_files \in SeqsUpTo(SortNames, MaxUploads)
    /\ pc = "start"
    /\ Blank

SpecSort == InitSort /\ [][SortFiles]_vars

----------------------------------------------------------------------------
(* The normalization pass alone, over every text up to MaxTextLen *)

InitNorm ==
    /\ API_KEY = TRUE
    /\ uploaded_files = <<>>
    /\ pc = "normalize"
    /\ sorted_files = <<>>
    /\ model = "none"
    /\ idx = 0
    /\ extracted_data = <<>>
    /\ origin = <<>>
    /\ response = [none |-> TRUE, text |-> <<>>]
    /\ full_text \in NormTexts
    /\ final_text = <<>>
    /\ tmp_files = {}
    /\ widget_keys = {}
    /\ read_log = {}
    /\ remote_log = {}
    /\ fault = "none"
    /\ fault_msg = <<>>
    /\ doc = <<>>

\* lines 155-163
NormalizeText ==
    /\ pc = "normalize"
    /\ final_text' = Normalize(full_text)
    /\ pc' = "normalized"
    /\ UNCHANGED <<API_KEY, uploaded_files, sorted_files, model, idx, extracted_data,
                   origin, response, full_text, tmp_files, widget_keys, read_log,
                   remote_log, fault, fault_msg, doc>>

SpecNorm == InitNorm /\ [][NormalizeText]_vars

----------------------------------------------------------------------------
(* Vocabulary of the properties *)

\* the loop of line 73 has run over every file
LoopFinished == (pc = "loop" /\ idx = Len(sorted_files)) \/ pc = "done"

\* the texts the step of loop index i appended, in order
EntriesOf(i) ==
    LET at == SelectSeq([k \in 1..Len(origin) |-> k], LAMBDA k : origin[k] = i)
    IN  [j \in 1..Len(at) |-> extracted_data[at[j]].text]

HasPrefix(t, pre) == Len(t) >= Len(pre) /\ SubSeq(t, 1, Len(pre)) = pre

\* "[Gemini error: <message>]"
IsGeminiForm(t) ==
    HasPrefix(t, SubSeq(GeminiPrefix, 1, Len(GeminiPrefix) - 1)) /\ Last(t) = "]"

\* "[Unexpected error: <message>]"
IsUnexpectedForm(t) ==
    HasPrefix(t, SubSeq(UnexpectedPrefix, 1, Len(UnexpectedPrefix) - 1)) /\ Last(t) = "]"

\* the extension as the properties mean it: the text behind the last '.', in
\* lower case (the whole name where it holds no '.')
ExtensionOf(name) ==
    LET dots == {k \in 1..Len(name) : name[k] = "."}
        p == IF dots = {} THEN 0 ELSE CHOOSE k \in dots : \A j \in dots : j <= k
    IN  Lower(SubSeq(name, p + 1, Len(name)))

RemoteExtensions ==
    {<<"j", "p", "g">>, <<"j", "p", "e", "g">>, <<"p", "n", "g">>, <<"p", "d", "f">>}

RECURSIVE Pow10(_)
Pow10(n) == IF n = 0 THEN 1 ELSE 10 * Pow10(n - 1)

\* the ordering key as the properties mean it: <<0, v>> with v the value of the
\* first contiguous run of decimal digits, <<1, 0>> (+infinity) without a digit
OrderingKey(name) ==
    LET ds == {k \in 1..Len(name) : IsDigit(name[k])}
    IN  IF ds = {} THEN <<1, 0>>
        ELSE LET lo == CHOOSE k \in ds : \A j \in ds : k <= j
                 hi == CHOOSE k \in lo..Len(name) :
                           /\ \A j \in lo..k : j \in ds
                           /\ (k + 1) \notin ds
                 RECURSIVE Sum(_)
                 Sum(k) == IF k > hi THEN 0
                           ELSE DigitVal(name[k]) * Pow10(hi - k) + Sum(k + 1)
             IN  <<0, Sum(lo)>>

KeyLeq(a, b) == a[1] < b[1] \/ (a[1] = b[1] /\ a[2] <= b[2])

\* the bold paragraphs of the document: its "Source: ..." headers
HeaderPositions == {k \in 1..Len(doc) : doc[k].bold}

HeaderTexts == SelectSeq(doc, LAMBDA para : para.bold)

\* the paragraph that closes the block of the header at position h
BlockEnd(h) ==
    LET next == {k \in HeaderPositions : k > h}
    IN  IF next = {} THEN Len(doc)
        ELSE (CHOOSE k \in next : \A j \in next : k <= j) - 1

----------------------------------------------------------------------------
(* C1 (as claimed): once the per-file loop has finished, extracted_data holds
   exactly one entry per uploaded file. *)
C1_OneResultPerFile ==
    LoopFinished => Len(extracted_data) = Len(uploaded_files)

(* C2 (as claimed): the document holds exactly one "Source: <filename>" header
   per input file, in sorted order, and every block ends with a separator
   paragraph of 60 dash characters. *)
C2_HeadersAndDashSeparators ==
    pc = "done" =>
        /\ Len(HeaderTexts) = Len(sorted_files)
        /\ \A i \in 1..Len(sorted_files) :
               i <= Len(HeaderTexts)
               => HeaderTexts[i].text = SourcePrefix \o sorted_files[i]
        /\ \A h \in HeaderPositions :
               doc[BlockEnd(h)].text = [k \in 1..60 |-> "-"]

(* C2 (amended): the document holds exactly one "Source: <filename>" header
   per entry of extracted_data, in its order, so every input file has a header
   and the headers follow the sorted order; every block ends with a separator
   paragraph of 60 underscore characters. *)
C2_HeadersAndUnderscoreSeparators ==
    pc = "done" =>
        /\ Len(HeaderTexts) = Len(extracted_data)
        /\ \A k \in 1..Len(extracted_data) :
               HeaderTexts[k].text = SourcePrefix \o sorted_files[origin[k]]
        /\ \A i \in 1..Len(sorted_files) : \E k \in 1..Len(origin) : origin[k] = i
        /\ \A j, k \in 1..Len(origin) : j < k => origin[j] <= origin[k]
        /\ \A h \in HeaderPositions :
               /\ BlockEnd(h) > h + 1
               /\ doc[BlockEnd(h)].text = [k \in 1..60 |-> "_"]
               /\ ~doc[BlockEnd(h)].bold

\* a document of two files that the sort reordered
C2_Witness ==
    /\ pc = "done"
    /\ Len(sorted_files) = 2
    /\ sorted_files # uploaded_files
    /\ Len(HeaderTexts) = 2
    /\ Len(doc) > 8

(* C3: the sequenced batch is a permutation of the uploads, non-decreasing in
   the ordering key, and files with equal keys keep their upload order: for
   every key the files carrying it form the same sequence before and after. *)
C3_SequencedBatchSortedStable ==
    pc # "start" =>
        /\ Len(sorted_files) = Len(uploaded_files)
        /\ \A i, j \in 1..Len(sorted_files) :
               i < j => KeyLeq(OrderingKey(sorted_files[i]), OrderingKey(sorted_files[j]))
        /\ \A i \in 1..Len(uploaded_files) :
               LET SameKey(f) == OrderingKey(f) = OrderingKey(uploaded_files[i])
               IN  SelectSeq(sorted_files, SameKey) = SelectSeq(uploaded_files, SameKey)

\* three files, reordered, two of them with the same key
C3_Witness ==
    /\ pc = "ready"
    /\ Len(uploaded_files) = 3
    /\ sorted_files # uploaded_files
    /\ \E i, j \in 1..3 :
          /\ i < j
          /\ sorted_files[i] # sorted_files[j]
          /\ OrderingKey(sorted_files[i]) = OrderingKey(sorted_files[j])

(* C4 (as claimed): a failure of the PDF upload yields "[Gemini error: ...]",
   a failure at any other stage yields "[Unexpected error: ...]", and the loop
   goes on. *)
C4_UploadGeminiElseUnexpected ==
    (idx > 0 /\ fault # "none") =>
        /\ IF FileKind(sorted_files[idx]) = "pdf" /\ fault = "upload"
           THEN IsGeminiForm(EntriesOf(idx)[1])
           ELSE IsUnexpectedForm(EntriesOf(idx)[1])
        /\ pc \in {"loop", "done"}
        /\ (idx < Len(sorted_files) => ENABLED ProcessFile)

(* C4 (amended): for a PDF a failure of the upload or of the model call that
   follows it yields the normalized "[Gemini error: <message>]"; a failure while
   reading the file, decoding the image, calling the model on an image, or
   creating or writing the temporary file yields exactly
   "[Unexpected error: <message>]" and nothing else for that file; an exception
   of the display step adds an "[Unexpected error: ...]" entry; the loop goes
   on in every case. *)
C4_InnerGeminiOuterUnexpected ==
    idx > 0 =>
        LET kind == FileKind(sorted_files[idx])
            got == EntriesOf(idx)
        IN  /\ (kind = "pdf" /\ fault \in {"upload", "generate"})
                => got[1] = Normalize(GeminiError(fault_msg)) /\ IsGeminiForm(got[1])
            /\ (fault \in {"read", "open", "tmp_create", "tmp_write"}
                \/ (kind = "image" /\ fault = "generate"))
                => got = <<UnexpectedError(fault_msg)>>
            /\ Len(got) = 2 => IsUnexpectedForm(got[2])
            /\ Len(got) \in {1, 2}
            /\ pc \in {"loop", "done"}
            /\ (idx < Len(sorted_files) => ENABLED ProcessFile)

\* the model call on an uploaded PDF raised, and another file is still to come
C4_Witness ==
    /\ pc = "loop"
    /\ idx > 0
    /\ idx < Len(sorted_files)
    /\ FileKind(sorted_files[idx]) = "pdf"
    /\ fault = "generate"
    /\ <<idx, "upload">> \in remote_log

(* C5 (as claimed): once the step of a file has ended, no temporary file
   created for it exists. *)
C5_NoTempFileLeft ==
    pc \in {"loop", "done"} => tmp_files = {}

(* C6 (as claimed): when the model call returned, the stored text is never
   empty, and a response whose text is None or '' is stored as
   "[No text detected or low confidence]". *)
C6_StoredTextNeverEmpty ==
    (idx > 0 /\ fault = "none" /\ FileKind(sorted_files[idx]) # "unsupported") =>
        /\ EntriesOf(idx)[1] # <<>>
        /\ (response.none \/ response.text = <<>>) => EntriesOf(idx)[1] = NoTextDetected

(* C7 (as claimed): every stored text equals its own normalization. *)
C7_EveryResultNormalized ==
    \A k \in 1..Len(extracted_data) :
        extracted_data[k].text = Normalize(extracted_data[k].text)

(* C8: with the credential missing or the model initialization raising, the
   run stops at the button: no file is read, no remote operation is attempted,
   nothing is appended and no document is built. *)
C8_HaltBeforeAnyFile ==
    ((~API_KEY \/ model = "failed") /\ pc \notin {"start", "idle", "ready"}) =>
        /\ pc = "stopped"
        /\ idx = 0
        /\ read_log = {}
        /\ remote_log = {}
        /\ extracted_data = <<>>
        /\ doc = <<>>

\* the button was pressed on a non-empty batch and the model initialization raised
C8_Witness ==
    /\ pc = "stopped"
    /\ model = "failed"
    /\ Len(sorted_files) = MaxFiles

(* C9: a processed file whose extension is none of jpg, jpeg, png, pdf gets
   the text "[Unsupported file type]" and no remote operation; a remote
   operation is attempted only for a file with one of the four extensions. *)
C9_UnsupportedNoRemoteCall ==
    \A i \in 1..idx :
        /\ ExtensionOf(sorted_files[i]) \notin RemoteExtensions
            => /\ EntriesOf(i)[1] = UnsupportedText
               /\ \A op \in {"upload", "generate"} : <<i, op>> \notin remote_log
               /\ i \notin read_log
        /\ (\E op \in {"upload", "generate"} : <<i, op>> \in remote_log)
            => ExtensionOf(sorted_files[i]) \in RemoteExtensions

\* an unsupported file and a file with a remote call were both processed
C9_Witness ==
    /\ idx = 2
    /\ \E i \in 1..2 :
          /\ ExtensionOf(sorted_files[i]) \notin RemoteExtensions
          /\ EntriesOf(i) = <<UnsupportedText>>
    /\ \E i \in 1..2, op \in {"upload", "generate"} : <<i, op>> \in remote_log

(* C10: normalization is idempotent: normalizing a normalized text changes
   nothing. *)
C10_NormalizeIdempotent ==
    pc = "normalized" => Normalize(final_text) = final_text

\* a text of several lines that the pass changed
C10_Witness ==
    /\ pc = "normalized"
    /\ final_text # full_text
    /\ \E k \in 1..Len(final_text) : final_text[k] = "\n"
    /\ \E k \in 1..Len(final_text) : final_text[k] # "\n"

====
